---- MODULE Spec2Model ----
(***************************************************************************)
(* A model of the DAPHNE distributed runtime's MPI helper                  *)
(* (src/runtime/distributed/worker/MPIHelper.h): the binary Task codec,    *)
(* the acknowledgment parser and the tagged message protocol, and of the   *)
(* aggAll kernel (src/runtime/local/kernels/AggAll.h).                     *)
(*                                                                         *)
(* The specifications share the module's variables:                        *)
(*   SpecCodec  Task::sizeInBytes / serialize / deserialize                *)
(*   SpecParse  constructStoredInfo                                        *)
(*   SpecAgg    aggAll on a dense and on a CSR matrix                      *)
(*   Spec       the coordinator's and the workers' message exchange, one   *)
(*              step per MPI call                                          *)
(*   SpecDist   Spec restricted to point-to-point distribution             *)
(*   SpecAck    Spec restricted to a broadcast and its acknowledgments     *)
(*   SpecBcast  the broadcasts of Spec under fair scheduling               *)
(* Each leaves the variables of the other parts at their initial values.   *)
(***************************************************************************)
EXTENDS Integers, Sequences, FiniteSets, TLC

\* ------------------------------------------------------------------------
\* Bounds of the model
\* ------------------------------------------------------------------------
MaxCodeLen == 2
MaxInputs == 2
MaxIdLen == 26
MaxTextLen == 6
\* MPI_Comm_size(MPI_COMM_WORLD): the coordinator and WorldSize - 1 workers.
WorldSize == 3
\* The number of calls the coordinator makes in one run.
MaxCalls == 2
\* The largest number of cells, numRows * numCols, of a matrix given to aggAll.
MaxCells == 4

\* ------------------------------------------------------------------------
\* Constants of the program (x86-64, libstdc++)
\* ------------------------------------------------------------------------
\* sizeof(size_t): the width of every length and dimension field on the wire.
SizeofSizeT == 8
\* sizeof(WorkerImpl::StoredInfo) = sizeof(std::string) + 2 * sizeof(size_t)
\* = 32 + 8 + 8 with libstdc++'s std::string.
SizeofStoredInfo == 48
\* struct Header { size_t mlir_code_len; size_t num_inputs; } packed.
SizeofHeader == 2 * SizeofSizeT

\* Any size_t of 2^31 - 1 or more: the model keeps the exact value of
\* smaller numbers only.
Huge == 2147483646 + 1
\* a + b for two such numbers.
Plus(a, b) == IF a >= Huge - b THEN Huge ELSE a + b

Min(a, b) == IF a < b THEN a ELSE b
Max(a, b) == IF a < b THEN b ELSE a

SeqsUpTo(S, n) == UNION {[1..k -> S] : k \in 0..n}

\* ------------------------------------------------------------------------
\* Task codec: data
\* ------------------------------------------------------------------------
CodeChars == {0, 109}
\* An identifier of n characters, "bcabca...".
Ident(n) == [i \in 1..n |-> 97 + (i % 3)]
IdLens == {0, 1, MaxIdLen - 2, MaxIdLen - 1, MaxIdLen}
RowValues == {0, 300}
ColValues == {70000}

\* WorkerImpl::StoredInfo { std::string identifier; size_t numRows, numCols; }
StoredInfos ==
    [identifier : {Ident(n) : n \in IdLens}, numRows : RowValues, numCols : ColValues]

\* MPIHelper::Task { std::string mlir_code; std::vector<StoredInfo> inputs; }
Tasks == [mlir_code : SeqsUpTo(CodeChars, MaxCodeLen), inputs : SeqsUpTo(StoredInfos, MaxInputs)]

\* A std::vector<char>: size(), capacity() and the initialised bytes of its
\* storage, which are contiguous from offset 0 in every use the model makes.
EmptyVector == [size |-> 0, cap |-> 0, mem |-> <<>>]

\* The object representation of a size_t (little endian, 8 bytes), exact for
\* v < 2^31.
LE8(v) == [i \in 1..SizeofSizeT |-> IF i <= 4 THEN (v \div (256 ^ (i - 1))) % 256 ELSE 0]

\* The size_t whose object representation is b; Huge when it is 2^31 or more.
FromLE8(b) ==
    IF (\E i \in 5..SizeofSizeT : b[i] # 0) \/ b[4] >= 128
    THEN Huge
    ELSE b[1] + 256 * b[2] + 65536 * b[3] + 16777216 * b[4]

\* ------------------------------------------------------------------------
\* Task::sizeInBytes
\* ------------------------------------------------------------------------
sizeInBytes(t) ==
    SizeofHeader + Len(t.mlir_code) + SizeofStoredInfo * Len(t.inputs)

\* std::vector<char>::reserve(n): storage for n elements, size() unchanged.
reserve(v, n) == IF n > v.cap THEN [v EXCEPT !.cap = n] ELSE v

\* std::copy(src.begin(), src.end(), bufIdx); bufIdx += src.size(), on a state
\* st = [mem, bufIdx] where mem holds every byte written so far, whether or
\* not it lies inside the vector's capacity.
CopyAt(st, src) ==
    [mem |-> [i \in 1..(st.bufIdx + Len(src)) |->
                  IF i <= st.bufIdx THEN st.mem[i] ELSE src[i - st.bufIdx]],
     bufIdx |-> st.bufIdx + Len(src)]

\* The loop over the inputs of Task::serialize.
RECURSIVE SerializeInputs(_, _, _)
SerializeInputs(inputs, k, st) ==
    IF k > Len(inputs) THEN st
    ELSE LET inp == inputs[k]
             strLen == Len(inp.identifier)
             s1 == CopyAt(st, LE8(strLen))
             s2 == CopyAt(s1, inp.identifier)
             s3 == CopyAt(s2, LE8(inp.numRows))
             s4 == CopyAt(s3, LE8(inp.numCols))
         IN  SerializeInputs(inputs, k + 1, s4)

\* Task::serialize(buffer): the bytes written through bufIdx, in order.
SerializeStream(t) ==
    LET s0 == [mem |-> <<>>, bufIdx |-> 0]
        s1 == CopyAt(s0, LE8(Len(t.mlir_code)) \o LE8(Len(t.inputs)))
        s2 == CopyAt(s1, t.mlir_code)
    IN  SerializeInputs(t.inputs, 1, s2)

\* Task::serialize(buffer): the vector after the call (reserve never changes
\* size()), the number of bytes written, and the bytes written past the
\* vector's capacity.
serialize(t, buf) ==
    LET v == reserve(buf, sizeInBytes(t))
        st == SerializeStream(t)
    IN  [buffer |-> [v EXCEPT !.mem = SubSeq(st.mem, 1, Min(v.cap, st.bufIdx))],
         written |-> st.bufIdx,
         oob |-> SubSeq(st.mem, v.cap + 1, st.bufIdx)]

\* ------------------------------------------------------------------------
\* Task::deserialize
\* ------------------------------------------------------------------------
\* std::string::max_size() = 2^62 - 1 and
\* std::vector<StoredInfo>::max_size() = (2^63 - 1) / sizeof(StoredInfo),
\* as the object representation of a size_t.
StringMaxSize == <<255, 255, 255, 255, 255, 255, 255, 63>>
VectorMaxSize == <<170, 170, 170, 170, 170, 170, 170, 2>>

\* The size_t with object representation b is greater than the one with t,
\* compared from byte i (the most significant not yet compared) down.
RECURSIVE Exceeds(_, _, _)
Exceeds(b, t, i) ==
    IF i = 0 THEN FALSE
    ELSE IF b[i] # t[i] THEN b[i] > t[i]
    ELSE Exceeds(b, t, i - 1)

\* A byte or a size_t that the program does not determine: it is read from
\* past the storage of the buffer (undefined behaviour) and may hold any
\* value, whatever the heap has left there.
Undetermined == -1
\* The number of the elements of a run of bytes, or of inputs, that the
\* program does not determine either, because it was read from past the
\* storage.
AnyRun == -2
\* A string and a vector of inputs that the model does not hold: of a number
\* of elements that is not determined, or of Huge elements.
AnyText == <<AnyRun>>
AnyInputs == <<[identifier |-> AnyText, numRows |-> AnyRun, numCols |-> AnyRun]>>
Held(n) == n # AnyRun /\ n # Huge

\* Every byte of b is one the buffer holds.
Known(b) == \A i \in 1..Len(b) : b[i] # Undetermined
\* b when the bytes past the storage happen to be zero.
ZeroFilled(b) == [i \in 1..Len(b) |-> IF b[i] = Undetermined THEN 0 ELSE b[i]]
\* The size_t read as the bytes b.
ValueOf(b) == IF Known(b) THEN FromLE8(b) ELSE Undetermined

\* What resize(n) of a container with elements of elemSize bytes does with
\* the n of object representation b, as the set of its outcomes. Above
\* max_size() it throws std::length_error. Within max_size() it gives n
\* elements, or std::bad_alloc when they take 2^31 - 1 bytes or more and the
\* machine does not have them. An n with bytes from past the storage may be
\* any of these: too large, the number the bytes of the buffer give when the
\* others are zero, or some other number.
Resized(n) == [status |-> "ok", n |-> n]
Ends(s) == [status |-> s, n |-> 0]
Allocated(n, elemSize) ==
    {Resized(n)} \cup (IF n > (Huge - 1) \div elemSize THEN {Ends("bad_alloc")} ELSE {})
resize(b, maxSize, elemSize) ==
    IF Known(b)
    THEN IF Exceeds(b, maxSize, SizeofSizeT) THEN {Ends("length_error")}
         ELSE Allocated(FromLE8(b), elemSize)
    ELSE {Ends("length_error"), Ends("bad_alloc"), Resized(AnyRun)}
         \cup Allocated(FromLE8(ZeroFilled(b)), elemSize)

\* The bytes at offsets off .. off+n-1 of the memory read through
\* buffer.data(), of which bytes are the buffer's.
RdN(bytes, off, n) ==
    [k \in 1..n |-> IF k <= Len(bytes) - off THEN bytes[off + k] ELSE Undetermined]
\* The n bytes copied from offset off, and the offset after them (the least
\* it can be when n is not determined).
Text(bytes, off, n) == IF Held(n) THEN RdN(bytes, off, n) ELSE AnyText
After(off, n) == IF n = AnyRun THEN off ELSE Plus(off, n)

\* Whether the read of n bytes at off kills the process: a vector without
\* storage has data() = nullptr, and a page past the storage may be mapped or
\* not.
Traps(bytes, off, n) ==
    IF n = 0 \/ (Held(n) /\ n <= Len(bytes) - off) THEN {FALSE}
    ELSE IF bytes = <<>> THEN {TRUE}
    ELSE BOOLEAN

\* A value-initialised StoredInfo, as inputs.resize(num_inputs) makes them.
DefaultInfo == [identifier |-> <<>>, numRows |-> 0, numCols |-> 0]
Defaults(n) == [i \in 1..n |-> DefaultInfo]

\* The loop over the inputs of Task::deserialize, as the set of its
\* outcomes: acc are the inputs read, n those of this->inputs not yet read.
\* An outcome holds bufIdx as the call leaves it (at the start of the read
\* that killed the process, when one did) and readEnd, the offset one past
\* the last byte the call read or tried to read (the least they can be after
\* a length that is not determined).
RECURSIVE DeserializeInputs(_, _, _, _)
DeserializeInputs(bytes, n, bufIdx, acc) ==
    IF n = 0
    THEN {[status |-> "ok", inputs |-> acc, bufIdx |-> bufIdx, readEnd |-> bufIdx]}
    ELSE IF ~Held(n)
    THEN \* more iterations than the model follows: each may throw or die
         {[status |-> s, inputs |-> AnyInputs, bufIdx |-> bufIdx, readEnd |-> bufIdx] :
             s \in {"length_error", "bad_alloc", "sigsegv"}}
         \cup {[status |-> "ok", inputs |-> AnyInputs, bufIdx |-> After(bufIdx, n),
                readEnd |-> After(bufIdx, n)]}
    ELSE
    LET Left(s, p, e) ==
            [status |-> s, inputs |-> acc \o Defaults(n), bufIdx |-> p, readEnd |-> e]
        p1 == Plus(bufIdx, SizeofSizeT)
        strLens == resize(RdN(bytes, bufIdx, SizeofSizeT), StringMaxSize, 1)
        \* One iteration after identifier.resize(strLen) with outcome r.
        Input(r) ==
            IF r.status # "ok"
            THEN \* identifier.resize(strLen) throws
                 {Left(r.status, p1, p1)}
            ELSE LET p2 == After(p1, r.n)
                     p3 == Plus(p2, SizeofSizeT)
                     p4 == Plus(p3, SizeofSizeT)
                     inp == [identifier |-> Text(bytes, p1, r.n),
                             numRows |-> ValueOf(RdN(bytes, p2, SizeofSizeT)),
                             numCols |-> ValueOf(RdN(bytes, p3, SizeofSizeT))]
                     idTrap == Traps(bytes, p1, r.n)
                     rowsTrap == Traps(bytes, p2, SizeofSizeT)
                     colsTrap == Traps(bytes, p3, SizeofSizeT)
                 IN  (IF TRUE \in idTrap THEN {Left("sigsegv", p1, p2)} ELSE {})
                     \cup (IF FALSE \in idTrap /\ TRUE \in rowsTrap
                           THEN {Left("sigsegv", p2, p3)} ELSE {})
                     \cup (IF FALSE \in idTrap /\ FALSE \in rowsTrap /\ TRUE \in colsTrap
                           THEN {Left("sigsegv", p3, p4)} ELSE {})
                     \cup (IF FALSE \in idTrap /\ FALSE \in rowsTrap /\ FALSE \in colsTrap
                           THEN DeserializeInputs(bytes, n - 1, p4, Append(acc, inp))
                           ELSE {})
        trap == Traps(bytes, bufIdx, SizeofSizeT)
    IN  (IF TRUE \in trap THEN {Left("sigsegv", bufIdx, p1)} ELSE {})
        \cup (IF FALSE \in trap THEN UNION {Input(r) : r \in strLens} ELSE {})

\* The process died: no Task is left to look at.
Died(bufIdx, readEnd) ==
    [status |-> "sigsegv", mlir_code |-> <<>>, inputs |-> <<>>, bufIdx |-> bufIdx,
     readEnd |-> readEnd]

\* Task::deserialize(buffer) on a fresh Task, as the set of its outcomes:
\* this->mlir_code and this->inputs as the call leaves them, how it ended,
\* bufIdx and readEnd. No length is compared with the buffer's.
deserialize(bytes) ==
    LET lenBytes == RdN(bytes, 0, SizeofSizeT)
        numBytes == RdN(bytes, SizeofSizeT, SizeofSizeT)
        \* From inputs.resize(num_inputs), with outcome i, on.
        Inputs(code, p, i) ==
            IF i.status # "ok"
            THEN \* inputs.resize(num_inputs) throws
                 {[status |-> i.status, mlir_code |-> code, inputs |-> <<>>, bufIdx |-> p,
                   readEnd |-> p]}
            ELSE {IF r.status = "sigsegv" THEN Died(r.bufIdx, r.readEnd)
                  ELSE [status |-> r.status, mlir_code |-> code, inputs |-> r.inputs,
                        bufIdx |-> r.bufIdx, readEnd |-> r.readEnd] :
                     r \in DeserializeInputs(bytes, i.n, p, <<>>)}
        \* From mlir_code.resize(mlir_code_len), with outcome c, on.
        Code(c) ==
            IF c.status # "ok"
            THEN \* mlir_code.resize(mlir_code_len) throws
                 {[status |-> c.status, mlir_code |-> <<>>, inputs |-> <<>>,
                   bufIdx |-> SizeofHeader, readEnd |-> SizeofHeader]}
            ELSE LET trap == Traps(bytes, SizeofHeader, c.n)
                     code == Text(bytes, SizeofHeader, c.n)
                     p == After(SizeofHeader, c.n)
                 IN  (IF TRUE \in trap THEN {Died(SizeofHeader, p)} ELSE {})
                     \cup (IF FALSE \in trap
                           THEN UNION {Inputs(code, p, i) :
                                          i \in resize(numBytes, VectorMaxSize,
                                                       SizeofStoredInfo)}
                           ELSE {})
        trap == Traps(bytes, 0, SizeofHeader)
    IN  (IF TRUE \in trap THEN {Died(0, SizeofHeader)} ELSE {})
        \cup (IF FALSE \in trap
              THEN UNION {Code(c) : c \in resize(lenBytes, StringMaxSize, 1)}
              ELSE {})

\* ------------------------------------------------------------------------
\* constructStoredInfo
\* ------------------------------------------------------------------------
\* Texts are sequences of one-character strings.
Alphabet == {"m", "1", "0", ",", "-", " "}
Digits == {"0", "1", "2", "3", "4", "5", "6", "7", "8", "9"}
DigitVal(c) == CHOOSE d \in 0..9 : <<"0", "1", "2", "3", "4", "5", "6", "7", "8", "9">>[d + 1] = c

\* What the uninitialised info.numRows / info.numCols may hold.
Indeterminate == {0, 7777}

\* std::getline(s_stream, substr, ',') with the stream at offset pos: the
\* characters up to the next comma, which is consumed; reaching the end of
\* the text sets eofbit, so that good() is false afterwards.
getline(input, pos) ==
    LET commas == {j \in (pos + 1)..Len(input) : input[j] = ","} IN
    IF commas # {}
    THEN LET j == CHOOSE j \in commas : \A k \in commas : j <= k
         IN  [substr |-> SubSeq(input, pos + 1, j - 1), pos |-> j, good |-> TRUE]
    ELSE [substr |-> SubSeq(input, pos + 1, Len(input)), pos |-> Len(input),
          good |-> FALSE]

\* while (s_stream.good()) { getline(...); results.push_back(substr); }
\* entered with the stream good at offset pos.
RECURSIVE SplitLoop(_, _, _)
SplitLoop(input, pos, results) ==
    LET r == getline(input, pos)
        pushed == Append(results, r.substr)
    IN  IF r.good THEN SplitLoop(input, r.pos, pushed) ELSE pushed

\* results[i] without the range check of at(): an empty field past the end.
AtUnchecked(results, i) ==
    IF i < Len(results) THEN [ok |-> TRUE, value |-> results[i + 1]]
    ELSE [ok |-> TRUE, value |-> <<>>]

\* std::vector::at(i), i counted from 0: throws std::out_of_range past the end.
At(results, i) ==
    IF i < Len(results) THEN [ok |-> TRUE, value |-> results[i + 1]]
    ELSE [ok |-> FALSE, value |-> <<>>]

\* The characters isspace() holds for in the "C" locale: space, \t, \n, \v,
\* \f and \r (the vertical tab is written "\\v" here).
WhiteSpace == {" ", "\t", "\n", "\\v", "\f", "\r"}

\* The white space a conversion of sscanf skips before it converts.
RECURSIVE SkipSpace(_, _)
SkipSpace(s, i) == IF i <= Len(s) /\ s[i] \in WhiteSpace THEN SkipSpace(s, i + 1) ELSE i

\* The digit run read without the decimal shift of the accumulator.
RECURSIVE ScanDigitsNoShift(_, _, _, _)
ScanDigitsNoShift(s, i, acc, n) ==
    IF i <= Len(s) /\ s[i] \in Digits
    THEN ScanDigitsNoShift(s, i + 1, acc + DigitVal(s[i]), n + 1)
    ELSE [value |-> acc, count |-> n]

\* The longest run of digits from s[i] on, converted. (A run whose value does
\* not fit 64 bits is stored as 2^64 - 1; it has 20 digits or more, and no
\* text of the model is that long.)
RECURSIVE ScanDigits(_, _, _, _)
ScanDigits(s, i, acc, n) ==
    IF i <= Len(s) /\ s[i] \in Digits
    THEN ScanDigits(s, i + 1, acc * 10 + DigitVal(s[i]), n + 1)
    ELSE [value |-> acc, count |-> n]

\* sscanf(s, "%zu", &x): white space is skipped, a sign is accepted, the
\* longest run of digits is converted and what follows it is ignored. Without
\* a digit nothing is stored. A negated value v stands for the size_t 2^64 - v.
ScanZu(s) ==
    LET i == SkipSpace(s, 1)
        signed == i <= Len(s) /\ s[i] \in {"+", "-"}
        neg == signed /\ s[i] = "-"
        d == ScanDigits(s, IF signed THEN i + 1 ELSE i, 0, 0)
    IN  IF d.count = 0 THEN [matched |-> FALSE, value |-> 0]
        ELSE [matched |-> TRUE, value |-> IF neg THEN 0 - d.value ELSE d.value]

\* constructStoredInfo(input); uRows and uCols are the indeterminate values
\* of the fields of the default-initialised StoredInfo.
constructStoredInfo(input, uRows, uCols) ==
    LET results == SplitLoop(input, 0, <<>>)
        f0 == At(results, 0)
        f1 == At(results, 1)
        f2 == At(results, 2)
        thrown == [status |-> "out_of_range",
                   info |-> [identifier |-> <<>>, numRows |-> 0, numCols |-> 0]]
    IN  IF ~f0.ok \/ ~f1.ok \/ ~f2.ok THEN thrown
        ELSE LET r == ScanZu(f1.value)
                 c == ScanZu(f2.value)
             IN  [status |-> "ok",
                  info |-> [identifier |-> f0.value,
                            numRows |-> IF r.matched THEN r.value ELSE uRows,
                            numCols |-> IF c.matched THEN c.value ELSE uCols]]

\* ------------------------------------------------------------------------
\* Message protocol: data
\* ------------------------------------------------------------------------
COORDINATOR == 0

\* enum TypesOfMessages
BROADCAST == 0
DATASIZE == 1
DATA == 2
DATAACK == 3
MLIRSIZE == 4
MLIR == 5
INPUTKEYS == 6
OUTPUT == 7
OUTPUTKEY == 8
DETACH == 9
OBJECTIDENTIFIERSIZE == 10
OBJECTIDENTIFIER == 11
TypesOfMessages ==
    {BROADCAST, DATASIZE, DATA, DATAACK, MLIRSIZE, MLIR, INPUTKEYS, OUTPUT,
     OUTPUTKEY, DETACH, OBJECTIDENTIFIERSIZE, OBJECTIDENTIFIER}

Ranks == 0..(WorldSize - 1)
Workers == Ranks \ {COORDINATOR}

\* A size_t n is kept as [hi, lo] with n = hi * 2^31 + lo and 0 <= lo < 2^31.
SizeT(hi, lo) == [hi |-> hi, lo |-> lo]

\* int message = messageLength: the low 32 bits, read as two's complement.
ToInt(n) == IF n.hi % 2 = 1 THEN (n.lo - 2147483647) - 1 ELSE n.lo

\* The buffers the coordinator distributes, (data, messageLength): 1 byte,
\* 2 bytes, 2^31 bytes and 2^32 + 1 bytes.
Payloads ==
    {[buf |-> "P1", len |-> SizeT(0, 1)], [buf |-> "P2", len |-> SizeT(0, 2)],
     [buf |-> "PB", len |-> SizeT(1, 0)], [buf |-> "PW", len |-> SizeT(2, 1)]}

SmallPayload == [buf |-> "P1", len |-> SizeT(0, 1)]

\* The NUL character, which a TLA+ string cannot hold.
NUL == "\\0"

\* What a worker sends under DATAACK: the text identifier,numRows,numCols
\* with its terminating NUL ("ACK") or without it ("ACKraw"), a text of two
\* fields ("ACK2"), or no byte at all ("ACK0").
Acks == {"ACK", "ACKraw", "ACK2", "ACK0"}
AckBytes(buf) ==
    IF buf = "ACK" THEN <<"m", ",", "1", ",", "0", NUL>>
    ELSE IF buf = "ACKraw" THEN <<"m", ",", "1", ",", "0">>
    ELSE IF buf = "ACK2" THEN <<"m", ",", "1", NUL>>
    ELSE <<>>

\* The results of the task a worker was sent (none for the task P1).
ResultOf(code) ==
    IF code = "P1" THEN [buf |-> "R0", count |-> 0] ELSE [buf |-> "R2", count |-> 2]

\* A point-to-point message: count elements of type; ival is the value of a
\* single MPI_INT, buf names the memory a byte payload was read from, of
\* which the message holds the first count bytes.
\* sync says that the sender's MPI_Send waits until the message is received.
IntMsg(tag, v) ==
    [tag |-> tag, type |-> "MPI_INT", count |-> 1, ival |-> v, buf |-> "-", sync |-> FALSE]
ByteMsg(tag, type, buf, count) ==
    [tag |-> tag, type |-> type, count |-> count, ival |-> 0, buf |-> buf, sync |-> FALSE]
NoMsg == [tag |-> -1, type |-> "-", count |-> 0, ival |-> 0, buf |-> "-", sync |-> FALSE]

\* MPI_Send's arguments are valid: a tag below 0 or a count below 0 is an
\* error, and MPI_COMM_WORLD's error handler is MPI_ERRORS_ARE_FATAL.
ValidSend(tag, count) == tag >= 0 /\ count >= 0

HasTag(q, tag) == \E i \in 1..Len(q) : q[i].tag = tag
\* The first message of queue q with the tag: the one MPI_Probe and MPI_Recv
\* match (messages of one sender do not overtake each other).
FirstWithTag(q, tag) ==
    CHOOSE i \in 1..Len(q) : q[i].tag = tag /\ \A j \in 1..(i - 1) : q[j].tag # tag
Without(q, i) == SubSeq(q, 1, i - 1) \o SubSeq(q, i + 1, Len(q))

\* The switch of distributeWithTag: the size tag and the data tag of a category.
SizeTagOf(tag) == IF tag = DATA THEN DATASIZE ELSE IF tag = MLIR THEN MLIRSIZE ELSE -1
DataTagOf(tag) == IF tag = DATA THEN DATA ELSE IF tag = MLIR THEN MLIR ELSE -1

\* distributeWithTag without its early return.
DistributeSkipsNone(rank) == FALSE
\* if (rank == COORDINATOR) return;   in distributeWithTag
DistributeSkips(rank) == rank = COORDINATOR
\* if (rank == COORDINATOR) continue; in sendData
SendDataSkips(rank) == rank = COORDINATOR

NoFrame ==
    [fn |-> "-", tag |-> -1, len |-> SizeT(0, 0), buf |-> "-", rank |-> 0,
     message |-> 0, sizeTag |-> -1, dataTag |-> -1, type |-> "-", source |-> -1,
     size |-> 0, next |-> "-"]

\* No call yet.
NoCall == [fn |-> "-", tag |-> -1, len |-> SizeT(0, 0), buf |-> "-", rank |-> 0]

\* A std::vector<char> that MPI_Recv wrote into: the first count bytes of its
\* storage are those of the payload buf.
NoData == [size |-> 0, cap |-> 0, buf |-> "-", count |-> 0]

\* ------------------------------------------------------------------------
\* Aggregation kernel: data
\* ------------------------------------------------------------------------
\* AggOpCode, and what AggOpCodeUtils says of each op-code.
AggOpCodes == {"SUM", "PROD", "MIN", "MAX", "MEAN", "STDDEV"}
isPureBinaryReduction(opCode) == opCode \in {"SUM", "PROD", "MIN", "MAX"}
isSparseSafe(opCode) == opCode = "SUM"
getBinaryOpCode(opCode) ==
    IF opCode = "SUM" THEN "ADD" ELSE IF opCode = "PROD" THEN "MUL" ELSE opCode

\* The neutral elements of MIN and MAX: above and below every value and
\* every sum the matrices of the model can produce.
PosInf == 1000000
NegInf == 0 - PosInf
getNeutral(opCode) ==
    IF opCode = "SUM" THEN 0
    ELSE IF opCode = "PROD" THEN 1
    ELSE IF opCode = "MIN" THEN PosInf
    ELSE NegInf

\* The function getEwBinaryScaFuncPtr resolves a binary op-code to, applied.
EwBinarySca(func, lhs, rhs) ==
    IF func = "ADD" THEN lhs + rhs
    ELSE IF func = "MUL" THEN lhs * rhs
    ELSE IF func = "MIN" THEN (IF rhs < lhs THEN rhs ELSE lhs)
    ELSE (IF lhs < rhs THEN rhs ELSE lhs)

\* The value types VTRes = VTArg the kernel is instantiated for.
ValueTypes == {"double", "int64_t"}

\* A logical cell: its value, and whether a CSR matrix stores it (a zero may
\* be stored explicitly; a non-zero always is).
Cells ==
    {[v |-> 0 - 2, stored |-> TRUE], [v |-> 3, stored |-> TRUE],
     [v |-> 0, stored |-> FALSE], [v |-> 0, stored |-> TRUE]}

\* The shapes of the matrices: any number of rows and columns, zero
\* included, with at most MaxCells cells.
Shapes == {sh \in (0..MaxCells) \X (0..MaxCells) : sh[1] * sh[2] <= MaxCells}

\* What lies in the padding of a dense row, between numCols and the row skip.
PaddingValues == {9}
Paddings == {0, 1}

\* The DenseMatrix of a logical matrix: values in row-major order with
\* rowSkip = numCols + pad entries per row.
DenseOf(m, pad, padValue) ==
    LET rowSkip == m.numCols + pad IN
    [numRows |-> m.numRows, numCols |-> m.numCols, rowSkip |-> rowSkip,
     values |-> [k \in 1..(m.numRows * rowSkip) |->
                    LET r == (k - 1) \div rowSkip
                        c == (k - 1) % rowSkip
                    IN  IF c < m.numCols THEN m.cells[r * m.numCols + c + 1].v
                        ELSE padValue]]

RECURSIVE StoredValues(_, _)
StoredValues(cells, k) ==
    IF k > Len(cells) THEN <<>>
    ELSE (IF cells[k].stored THEN <<cells[k].v>> ELSE <<>>) \o StoredValues(cells, k + 1)

\* The CSRMatrix of a logical matrix: the stored values in row-major order.
CSROf(m) ==
    LET values == StoredValues(m.cells, 1) IN
    [numRows |-> m.numRows, numCols |-> m.numCols, values |-> values,
     numNonZeros |-> Len(values)]

\* What a call of aggAll yields: a value of VTRes or an exception. A value
\* is an integer (kind "int"), the quotient num / den of a floating-point
\* division ("ratio"), a NaN ("nan"), or an int64_t too large for the
\* integers of the model, given by its four 16-bit digits ("big").
NoResult == [status |-> "none", kind |-> "-", num |-> 0, den |-> 1, digits |-> <<>>]
Value(v) == [status |-> "ok", kind |-> "int", num |-> v, den |-> 1, digits |-> <<>>]
Ratio(n, d) == [status |-> "ok", kind |-> "ratio", num |-> n, den |-> d, digits |-> <<>>]
NaN == [status |-> "ok", kind |-> "nan", num |-> 0, den |-> 1, digits |-> <<>>]
Big(digits) == [status |-> "ok", kind |-> "big", num |-> 0, den |-> 1, digits |-> digits]
Thrown == [status |-> "runtime_error", kind |-> "-", num |-> 0, den |-> 1, digits |-> <<>>]
Sigfpe == [status |-> "sigfpe", kind |-> "-", num |-> 0, den |-> 1, digits |-> <<>>]

\* ------------------------------------------------------------------------
\* Aggregation kernel: operators
\* ------------------------------------------------------------------------
\* The conversion of a negative int64_t v to the unsigned 64-bit 2^64 + v,
\* as four digits of base 2^16, most significant first (0 < -v <= 2^16).
ToUnsigned(v) == <<65535, 65535, 65535, 65536 + v>>

\* The unsigned division of four base-2^16 digits by n > 0.
RECURSIVE DivDigits(_, _, _, _)
DivDigits(digits, n, i, rem) ==
    IF i > Len(digits) THEN <<>>
    ELSE LET cur == rem * 65536 + digits[i] IN
         <<cur \div n>> \o DivDigits(digits, n, i + 1, cur % n)

\* The conversion of an unsigned 64-bit value back to int64_t.
ToSigned(digits) ==
    IF digits[1] = 0 /\ digits[2] = 0 /\ digits[3] = 0 THEN Value(digits[4])
    ELSE IF digits[1] = 65535 /\ digits[2] = 65535 /\ digits[3] = 65535 /\ digits[4] > 0
    THEN Value(digits[4] - 65536)
    ELSE Big(digits)

\* agg / n with agg of type VTRes and n of type size_t. For a floating-point
\* VTRes n is converted to it; for int64_t agg is converted to unsigned
\* 64 bits, the division is unsigned and its result converted back. An
\* integer division by zero is undefined: divZero is what the build makes of it.
Divide(vt, agg, n, divZero) ==
    IF vt = "double"
    THEN (IF n = 0 THEN NaN ELSE Ratio(agg, n))
    ELSE IF n = 0 THEN divZero
    ELSE IF agg >= 0 THEN Value(agg \div n)
    ELSE ToSigned(DivDigits(ToUnsigned(agg), n, 1, 0))

\* What an integer division by zero may do: trap, or yield some value.
DivZeroOutcomes == {Sigfpe, Value(0)}

\* for (c = 0; c < numCols; c++) agg = func(agg, valuesArg[c]);
\* valuesArg is the offset of the row in the values.
RECURSIVE DenseRow(_, _, _, _, _, _)
DenseRow(func, values, valuesArg, c, numCols, agg) ==
    IF c < numCols
    THEN DenseRow(func, values, valuesArg, c + 1, numCols,
                  EwBinarySca(func, agg, values[valuesArg + c + 1]))
    ELSE agg

\* The rows taken as contiguous: valuesArg advances by numCols.
RECURSIVE DenseRowsContiguous(_, _, _, _, _)
DenseRowsContiguous(func, arg, valuesArg, r, agg) ==
    IF r < arg.numRows
    THEN DenseRowsContiguous(func, arg, valuesArg + arg.numCols, r + 1,
                             DenseRow(func, arg.values, valuesArg, 0, arg.numCols, agg))
    ELSE agg

\* for (r = 0; r < numRows; r++) { ...; valuesArg += arg->getRowSkip(); }
RECURSIVE DenseRows(_, _, _, _, _)
DenseRows(func, arg, valuesArg, r, agg) ==
    IF r < arg.numRows
    THEN DenseRows(func, arg, valuesArg + arg.rowSkip, r + 1,
                   DenseRow(func, arg.values, valuesArg, 0, arg.numCols, agg))
    ELSE agg

\* Every derived op-code taken for MEAN.
IsDerived(opCode) == TRUE
\* if (opCode == AggOpCode::MEAN), reached for a derived op-code.
IsMean(opCode) == opCode = "MEAN"

\* AggAll<VTRes, DenseMatrix<VTArg>>::apply(opCode, arg, ctx)
DenseApply(opCode, vt, arg, divZero) ==
    LET pure == isPureBinaryReduction(opCode)
        func == IF pure THEN getBinaryOpCode(opCode) ELSE getBinaryOpCode("SUM")
        init == IF pure THEN getNeutral(opCode) ELSE 0
        agg == DenseRows(func, arg, 0, 0, init)
    IN  IF pure THEN Value(agg)
        ELSE IF IsMean(opCode) THEN Divide(vt, agg, arg.numCols * arg.numRows, divZero)
        ELSE Thrown

\* for (i = 1; i < numNonZeros; i++) agg = func(agg, values[i]);
RECURSIVE ArrayLoop(_, _, _, _, _)
ArrayLoop(func, values, i, numNonZeros, agg) ==
    IF i < numNonZeros
    THEN ArrayLoop(func, values, i + 1, numNonZeros, EwBinarySca(func, agg, values[i + 1]))
    ELSE agg

\* The sparse-unsafe branch taken whenever values are stored.
ZeroAlways(sparseSafe, numNonZeros, numCells) == TRUE
\* if (!isSparseSafe && numNonZeros < numCells): the combine against zero.
ZeroCombined(sparseSafe, numNonZeros, numCells) == ~sparseSafe /\ numNonZeros < numCells

\* AggAll<VTRes, CSRMatrix<VTArg>>::aggArray(values, numNonZeros, numCells,
\* func, isSparseSafe, neutral, ctx)
aggArray(values, numNonZeros, numCells, func, sparseSafe, neutral) ==
    IF numNonZeros # 0
    THEN LET agg == ArrayLoop(func, values, 1, numNonZeros, values[1]) IN
         IF ZeroCombined(sparseSafe, numNonZeros, numCells)
         THEN EwBinarySca(func, agg, 0)
         ELSE agg
    ELSE EwBinarySca(func, neutral, 0)

\* AggAll<VTRes, CSRMatrix<VTArg>>::apply(opCode, arg, ctx)
CSRApply(opCode, vt, arg, divZero) ==
    IF isPureBinaryReduction(opCode)
    THEN Value(aggArray(arg.values, arg.numNonZeros, arg.numRows * arg.numCols,
                        getBinaryOpCode(opCode), isSparseSafe(opCode), getNeutral(opCode)))
    ELSE LET agg == aggArray(arg.values, arg.numNonZeros, arg.numRows * arg.numCols,
                             getBinaryOpCode("SUM"), TRUE, 0)
         IN  IF IsMean(opCode)
             THEN Divide(vt, agg, arg.numRows * arg.numCols, divZero)
             ELSE Thrown

\* ------------------------------------------------------------------------
\* State
\* ------------------------------------------------------------------------
VARIABLES
    \* Task codec
    task,       \* the Task given to serialize
    buffer,     \* the std::vector<char> given to serialize
    written,    \* bufIdx - buffer.begin() when serialize returns
    oob,        \* the bytes serialize wrote past buffer's capacity
    heap,       \* what became of them: "intact", "clobbered" or "crash"
    inLen,      \* the number of bytes of the buffer given to deserialize
    out,        \* how deserialize ended ("ok": it returned; an exception; "sigsegv":
                \* the process died), the Task it left, bufIdx and readEnd
    cpc,        \* "start", "serialized", "deserialized", "deserialized_short", "crashed"
                \* ("crashed": the process died in serialize)
    \* constructStoredInfo
    text,       \* the acknowledgment text
    pres,       \* the outcome: status and descriptor
    ppc,        \* "start", "done"
    \* Message protocol
    pc,         \* where the coordinator is in its current call; "idle" between
                \* calls, "aborted" once MPI has aborted the job, "crashed" once
                \* the coordinator has died
    frame,      \* the arguments and locals of the coordinator's current (or last) call
    ncalls,     \* how many calls the coordinator has made
    prev,       \* the call before the current (or last) one: function and arguments
    callLog,    \* the MPI operations the current (or last) call has issued, in
                \* order, each with whether MPI accepted its arguments
    chan,       \* chan[s][d]: the messages sent by s to d and not yet received
    wpc,        \* where each worker is
    wlen,       \* the length each worker was last announced
    recvd,      \* what each worker has received, in order
    bcEntered,  \* how many MPI_Bcast calls each rank has entered
    bcData,     \* the root's payload of each MPI_Bcast
    rbuf,       \* the vector a getMessage / getMessageFrom call fills
    rlen,       \* *len of that call
    rrank,      \* *rank of a getMessage call
    rmsg,       \* the message MPI_Recv delivered to that call
    ack,        \* how getDataAcknowledgement ended, and the descriptor it returned
    \* aggAll
    opCode,     \* the AggOpCode given to aggAll
    valueType,  \* the value type VTRes = VTArg of the instantiation
    matrix,     \* the logical matrix: numRows, numCols and its cells in row-major order
    dense,      \* its DenseMatrix
    csr,        \* its CSRMatrix
    denseRes,   \* what aggAll yielded for the DenseMatrix
    csrRes      \* what aggAll yielded for the CSRMatrix

codecVars == <<task, buffer, written, oob, heap, inLen, out, cpc>>
parseVars == <<text, pres, ppc>>
coordVars == <<pc, frame, ncalls, prev, callLog, rbuf, rlen, rrank, rmsg, ack>>
workerVars == <<wpc, wlen, recvd>>
mpiVars == <<coordVars, workerVars, chan, bcEntered, bcData>>
aggVars == <<opCode, valueType, matrix, dense, csr, denseRes, csrRes>>
vars == <<codecVars, parseVars, mpiVars, aggVars>>

NoTask == [status |-> "none", mlir_code |-> <<>>, inputs |-> <<>>, bufIdx |-> 0,
           readEnd |-> 0]
NoInfo == [status |-> "none", info |-> [identifier |-> <<>>, numRows |-> 0, numCols |-> 0]]

CodecIdle ==
    /\ task = [mlir_code |-> <<>>, inputs |-> <<>>]
    /\ buffer = EmptyVector /\ written = 0 /\ oob = <<>> /\ heap = "intact"
    /\ inLen = 0 /\ out = NoTask /\ cpc = "idle"

ParseIdle == text = <<>> /\ pres = NoInfo /\ ppc = "idle"

MpiStart(p) ==
    /\ pc = p /\ frame = NoFrame /\ ncalls = 0 /\ prev = NoCall /\ callLog = <<>>
    /\ chan = [s \in Ranks |-> [d \in Ranks |-> <<>>]]
    /\ wpc = [w \in Workers |-> "listen"]
    /\ wlen = [w \in Workers |-> 0]
    /\ recvd = [w \in Workers |-> <<>>]
    /\ bcEntered = [r \in Ranks |-> 0]
    /\ bcData = <<>>
    /\ rbuf = NoData /\ rlen = 0 /\ rrank = -1 /\ rmsg = NoMsg /\ ack = NoInfo

MpiIdle == MpiStart("off")
NoMatrix == [numRows |-> 0, numCols |-> 0, cells |-> <<>>]
AggIdle ==
    /\ opCode = "-" /\ valueType = "-" /\ matrix = NoMatrix
    /\ dense = DenseOf(NoMatrix, 0, 0) /\ csr = CSROf(NoMatrix)
    /\ denseRes = NoResult /\ csrRes = NoResult

\* ------------------------------------------------------------------------
\* SpecCodec: a Task is serialized into a fresh vector and read back
\* ------------------------------------------------------------------------
InitCodec ==
    /\ task \in Tasks
    /\ buffer = EmptyVector /\ written = 0 /\ oob = <<>> /\ heap = "intact"
    /\ inLen = 0 /\ out = NoTask /\ cpc = "start"
    /\ ParseIdle /\ MpiIdle /\ AggIdle

\* task.serialize(buffer). Bytes written past the capacity are a heap
\* overflow: they stay where they were written, or the heap's owner of that
\* memory overwrites them, or the process dies.
Serialize ==
    /\ cpc = "start"
    /\ LET r == serialize(task, buffer) IN
       /\ buffer' = r.buffer
       /\ written' = r.written
       /\ oob' = r.oob
       /\ heap' \in (IF r.oob = <<>> THEN {"intact"} ELSE {"intact", "clobbered", "crash"})
    /\ cpc' = IF heap' = "crash" THEN "crashed" ELSE "serialized"
    /\ UNCHANGED <<task, inLen, out, parseVars, mpiVars, aggVars>>

\* The bytes serialize wrote past the capacity, as deserialize finds them
\* once the heap's owner of that memory has written there.
Clobbered == [i \in 1..Len(oob) |-> Undetermined]

\* Task().deserialize(buffer) on the vector serialize filled.
Deserialize ==
    /\ cpc = "serialized"
    /\ out' \in deserialize(buffer.mem \o (IF heap = "clobbered" THEN Clobbered ELSE oob))
    /\ inLen' = buffer.cap
    /\ cpc' = "deserialized"
    /\ UNCHANGED <<task, buffer, written, oob, heap, parseVars, mpiVars, aggVars>>

\* Task().deserialize(b) on a vector b holding only the first k of the bytes
\* serialize wrote: std::vector<char> b(first, first + k), without storage
\* when k = 0.
DeserializeShort(k) ==
    /\ cpc = "serialized"
    /\ k < written
    /\ out' \in deserialize(SubSeq(buffer.mem \o oob, 1, k))
    /\ inLen' = k
    /\ cpc' = "deserialized_short"
    /\ UNCHANGED <<task, buffer, written, oob, heap, parseVars, mpiVars, aggVars>>

NextCodec ==
    \/ Serialize
    \/ Deserialize
    \/ \E k \in 0..(written - 1) : DeserializeShort(k)

SpecCodec == InitCodec /\ [][NextCodec]_vars

\* ------------------------------------------------------------------------
\* SpecParse: constructStoredInfo on an acknowledgment text
\* ------------------------------------------------------------------------
InitParse ==
    /\ text \in SeqsUpTo(Alphabet, MaxTextLen)
    /\ pres = NoInfo /\ ppc = "start"
    /\ CodecIdle /\ MpiIdle /\ AggIdle

Construct ==
    /\ ppc = "start"
    /\ \E uRows \in Indeterminate, uCols \in Indeterminate :
          pres' = constructStoredInfo(text, uRows, uCols)
    /\ ppc' = "done"
    /\ UNCHANGED <<text, codecVars, mpiVars, aggVars>>

NextParse == Construct

SpecParse == InitParse /\ [][NextParse]_vars

\* ------------------------------------------------------------------------
\* SpecAgg: aggAll on the dense and on the CSR representation of a matrix
\* ------------------------------------------------------------------------
InitAgg ==
    /\ opCode \in AggOpCodes
    /\ valueType \in ValueTypes
    /\ \E sh \in Shapes :
          matrix \in [numRows : {sh[1]}, numCols : {sh[2]},
                      cells : [1..(sh[1] * sh[2]) -> Cells]]
    /\ \E pad \in Paddings, padValue \in PaddingValues :
          dense = DenseOf(matrix, pad, padValue)
    /\ csr = CSROf(matrix)
    /\ denseRes = NoResult /\ csrRes = NoResult
    /\ CodecIdle /\ ParseIdle /\ MpiIdle

\* aggAll<VTRes, DenseMatrix<VTArg>>(opCode, dense, ctx)
AggAllDense ==
    /\ denseRes = NoResult
    /\ \E divZero \in DivZeroOutcomes :
          denseRes' = DenseApply(opCode, valueType, dense, divZero)
    /\ UNCHANGED <<opCode, valueType, matrix, dense, csr, csrRes, codecVars, parseVars,
                   mpiVars>>

\* aggAll<VTRes, CSRMatrix<VTArg>>(opCode, csr, ctx)
AggAllCSR ==
    /\ csrRes = NoResult
    /\ \E divZero \in DivZeroOutcomes :
          csrRes' = CSRApply(opCode, valueType, csr, divZero)
    /\ UNCHANGED <<opCode, valueType, matrix, dense, csr, denseRes, codecVars, parseVars,
                   mpiVars>>

NextAgg == AggAllDense \/ AggAllCSR

SpecAgg == InitAgg /\ [][NextAgg]_vars

\* ------------------------------------------------------------------------
\* Spec: the coordinator calls the helper's functions, the workers answer
\* ------------------------------------------------------------------------
Init == MpiStart("idle") /\ CodecIdle /\ ParseIdle /\ AggIdle

otherVars == <<codecVars, parseVars, aggVars>>

Logged(d, m, ok) == [op |-> "send", dst |-> d, msg |-> m, ok |-> ok]
\* The call before the one a new call replaces: its function and arguments.
LastCall ==
    [fn |-> frame.fn, tag |-> frame.tag, len |-> frame.len, buf |-> frame.buf,
     rank |-> frame.rank]
\* The entry of a call: the locals and results of the call before are gone.
Called ==
    /\ pc = "idle" /\ ncalls < MaxCalls
    /\ ncalls' = ncalls + 1 /\ prev' = LastCall
    /\ callLog' = <<>>
    /\ rbuf' = NoData /\ rlen' = 0 /\ rrank' = -1 /\ rmsg' = NoMsg /\ ack' = NoInfo

\* One MPI_Send of the coordinator, of message m to rank dst; f is the
\* frame it leaves and next where the call goes on. MPI rejects a bad tag or
\* count and aborts the job. Otherwise the message is on its way and
\* MPI_Send returns, at once when MPI buffers the message, and else once
\* the receiver has received it.
MPI_Send(dst, m, f, next) ==
    /\ callLog' = Append(callLog, Logged(dst, m, ValidSend(m.tag, m.count)))
    /\ frame' = [f EXCEPT !.next = next]
    /\ IF ValidSend(m.tag, m.count)
       THEN \E sync \in BOOLEAN :
               /\ chan' = [chan EXCEPT ![COORDINATOR][dst] =
                              Append(@, [m EXCEPT !.sync = sync])]
               /\ pc' = IF sync THEN "send_wait" ELSE next
       ELSE /\ pc' = "aborted"
            /\ UNCHANGED chan
    /\ UNCHANGED <<ncalls, prev, rbuf, rlen, rrank, rmsg, ack, workerVars, bcEntered,
                   bcData, otherVars>>

\* The MPI_Send the coordinator waits in returns: its message was received.
SendReturns ==
    /\ pc = "send_wait"
    /\ \A d \in Ranks : \A i \in 1..Len(chan[COORDINATOR][d]) : ~chan[COORDINATOR][d][i].sync
    /\ pc' = frame.next
    /\ UNCHANGED <<frame, ncalls, prev, callLog, rbuf, rlen, rrank, rmsg, ack, workerVars,
                   chan, bcEntered, bcData, otherVars>>

\* distributeWithTag(tag, messageLength, data, rank), up to its first
\* MPI_Send: the early return, the narrowing of the length and the switch.
distributeWithTag(fn, tag, p, rank) ==
    /\ Called
    /\ frame' = [NoFrame EXCEPT !.fn = fn, !.tag = tag, !.len = p.len, !.buf = p.buf,
                                !.rank = rank, !.message = ToInt(p.len),
                                !.sizeTag = SizeTagOf(tag), !.dataTag = DataTagOf(tag)]
    /\ pc' = IF DistributeSkips(rank) THEN "idle" ELSE "dwt_size"
    /\ UNCHANGED <<workerVars, chan, bcEntered, bcData, otherVars>>

\* MPI_Send(&message, 1, MPI_INT, rank, sizeTag, MPI_COMM_WORLD);
DwtSendSize ==
    /\ pc = "dwt_size"
    /\ MPI_Send(frame.rank, IntMsg(frame.sizeTag, frame.message), frame, "dwt_data")

\* MPI_Send(data, message, MPI_UNSIGNED_CHAR, rank, dataTag, MPI_COMM_WORLD);
\* and the return of distributeWithTag.
DwtSendData ==
    /\ pc = "dwt_data"
    /\ MPI_Send(frame.rank,
                ByteMsg(frame.dataTag, "MPI_UNSIGNED_CHAR", frame.buf, frame.message),
                frame, "idle")

\* distributeData(messageLength, data, rank)
distributeData(p, rank) == distributeWithTag("distributeData", DATA, p, rank)

\* distributeTask(messageLength, data, rank)
distributeTask(p, rank) == distributeWithTag("distributeTask", MLIR, p, rank)

\* The loop of sendData: the first rank from rank on that it sends to.
RECURSIVE SdLoop(_)
SdLoop(rank) ==
    IF rank < WorldSize /\ SendDataSkips(rank) THEN SdLoop(rank + 1) ELSE rank

\* sendData(messageLength, data), up to its first MPI call.
sendData(p) ==
    /\ Called
    /\ frame' = [NoFrame EXCEPT !.fn = "sendData", !.tag = BROADCAST, !.len = p.len,
                                !.buf = p.buf, !.rank = SdLoop(0),
                                !.message = ToInt(p.len)]
    /\ pc' = "sd_loop"
    /\ UNCHANGED <<workerVars, chan, bcEntered, bcData, otherVars>>

\* MPI_Send(&message, 1, MPI_INT, rank, BROADCAST, MPI_COMM_WORLD); and the
\* loop's step to the next rank.
SdSend ==
    /\ pc = "sd_loop"
    /\ frame.rank < WorldSize
    /\ MPI_Send(frame.rank, IntMsg(BROADCAST, frame.message),
                [frame EXCEPT !.rank = SdLoop(frame.rank + 1)], "sd_loop")

\* MPI_Bcast(data, message, MPI_UNSIGNED_CHAR, COORDINATOR, MPI_COMM_WORLD)
\* after the loop: the coordinator enters the collective, or MPI rejects the
\* count and aborts the job.
SdBcast ==
    /\ pc = "sd_loop"
    /\ ~(frame.rank < WorldSize)
    /\ LET b == ByteMsg(BROADCAST, "MPI_UNSIGNED_CHAR", frame.buf, frame.message) IN
       /\ callLog' = Append(callLog, [op |-> "bcast", dst |-> COORDINATOR, msg |-> b,
                                      ok |-> frame.message >= 0])
       /\ IF frame.message >= 0
          THEN /\ bcEntered' = [bcEntered EXCEPT ![COORDINATOR] = @ + 1]
               /\ bcData' = Append(bcData, b)
               /\ pc' = "sd_bcast"
          ELSE /\ pc' = "aborted"
               /\ UNCHANGED <<bcEntered, bcData>>
    /\ UNCHANGED <<frame, ncalls, prev, rbuf, rlen, rrank, rmsg, ack, workerVars, chan,
                   otherVars>>

\* Every rank has entered the collective this rank is in.
AllEntered(r) == \A q \in Ranks : bcEntered[q] >= bcEntered[r]

\* MPI_Bcast returns on the coordinator, and so does sendData.
SdReturn ==
    /\ pc = "sd_bcast"
    /\ AllEntered(COORDINATOR)
    /\ pc' = "idle"
    /\ UNCHANGED <<frame, ncalls, prev, callLog, rbuf, rlen, rrank, rmsg, ack, workerVars,
                   chan, bcEntered, bcData, otherVars>>

\* getResults(rank): a fresh vector, and getMessageFrom(rank, OUTPUT,
\* MPI_UNSIGNED_CHAR, buffer, &resultsLen), which waits in MPI_Probe.
getResults(rank) ==
    /\ Called
    /\ frame' = [NoFrame EXCEPT !.fn = "getResults", !.tag = OUTPUT, !.rank = rank,
                                !.type = "MPI_UNSIGNED_CHAR"]
    /\ pc' = "gmf_probe"
    /\ UNCHANGED <<workerVars, chan, bcEntered, bcData, otherVars>>

\* getDataAcknowledgement(&rank): a fresh vector, and getMessage(rank, DATAACK,
\* MPI_CHAR, dataAcknowledgement, &len), which waits in MPI_Probe.
getDataAcknowledgement ==
    /\ Called
    /\ frame' = [NoFrame EXCEPT !.fn = "getDataAcknowledgement", !.tag = DATAACK,
                                !.type = "MPI_CHAR"]
    /\ pc' = "gm_probe"
    /\ UNCHANGED <<workerVars, chan, bcEntered, bcData, otherVars>>

\* data.reserve(size * sizeof(char)): capacity for size bytes, size() unchanged.
reserveData(v, n) == IF n > v.cap THEN [v EXCEPT !.cap = n] ELSE v

\* MPI_Recv taking the message of any rank instead of the probed one.
RecvSourceAny(probed, any) == any
\* The source MPI_Recv is given: status.MPI_SOURCE, the rank whose message
\* MPI_Probe matched (the rank argument itself in getMessageFrom).
RecvSource(probed, any) == probed

\* From the return of MPI_Probe on, getMessageFrom and getMessage are the
\* same: MPI_Get_count(&status, type, &size); data.reserve(size);
\* MPI_Recv(data.data(), size, type, source, tag, ...); *len = size.
\* probed is the rank whose message MPI_Probe matched.
ProbeAndRecv(probed, source) ==
    /\ HasTag(chan[probed][COORDINATOR], frame.tag)
    /\ HasTag(chan[source][COORDINATOR], frame.tag)
    /\ LET p == chan[probed][COORDINATOR]
           size == p[FirstWithTag(p, frame.tag)].count
           q == chan[source][COORDINATOR]
           i == FirstWithTag(q, frame.tag)
       IN  /\ frame' = [frame EXCEPT !.source = probed, !.size = size]
           /\ chan' = [chan EXCEPT ![source][COORDINATOR] = Without(q, i)]
           /\ rbuf' = [reserveData(rbuf, size) EXCEPT !.buf = q[i].buf,
                                                      !.count = Min(size, q[i].count)]
           /\ rmsg' = q[i]
           /\ rlen' = size

\* getMessageFrom once a message of rank with the tag is pending, and the
\* return of getResults.
GmfRecv ==
    /\ pc = "gmf_probe"
    /\ ProbeAndRecv(frame.rank, frame.rank)
    /\ pc' = "idle"
    /\ UNCHANGED <<ncalls, prev, callLog, rrank, ack, workerVars, bcEntered, bcData,
                   otherVars>>

\* What strlen finds past the bytes received when they hold no NUL (the
\* read is undefined behaviour): a NUL at once, one more character and then
\* a NUL, or a page that is not mapped.
OverReads == {"nul", "more", "unmapped"}

\* std::string(dataAcknowledgement.data()): the characters in the vector's
\* storage up to the first NUL. A vector without storage has data() = nullptr,
\* from which libstdc++ refuses to construct a string (std::logic_error).
RECURSIVE UpToNul(_, _)
UpToNul(bytes, i) ==
    IF i > Len(bytes) \/ bytes[i] = NUL THEN <<>>
    ELSE <<bytes[i]>> \o UpToNul(bytes, i + 1)
incomeAck(v, over) ==
    LET bytes == SubSeq(AckBytes(v.buf), 1, v.count) IN
    IF v.cap = 0 THEN [status |-> "logic_error", text |-> <<>>]
    ELSE IF \E i \in 1..Len(bytes) : bytes[i] = NUL
    THEN [status |-> "ok", text |-> UpToNul(bytes, 1)]
    ELSE IF over = "unmapped" THEN [status |-> "sigsegv", text |-> <<>>]
    ELSE [status |-> "ok", text |-> IF over = "more" THEN Append(bytes, "1") ELSE bytes]

\* Lines 139-141 of getDataAcknowledgement, after getMessage has filled the
\* vector v: the string, and constructStoredInfo(incomeAck).
AckOf(v, over, uRows, uCols) ==
    LET a == incomeAck(v, over) IN
    IF a.status # "ok" THEN [status |-> a.status, info |-> NoInfo.info]
    ELSE constructStoredInfo(a.text, uRows, uCols)

\* getMessage once a message with the tag is pending from some rank, which
\* MPI_Probe(MPI_ANY_SOURCE, ...) reports: *rank = status.MPI_SOURCE; then
\* the rest of getDataAcknowledgement, which returns the descriptor, throws,
\* or dies.
GmRecv(probed) ==
    /\ pc = "gm_probe"
    /\ \E source \in {RecvSource(probed, any) : any \in Ranks} :
          ProbeAndRecv(probed, source)
    /\ rrank' = probed
    /\ ack' \in {AckOf(rbuf', over, uRows, uCols) :
                    over \in OverReads, uRows \in Indeterminate, uCols \in Indeterminate}
    /\ pc' = IF ack'.status = "sigsegv" THEN "crashed" ELSE "idle"
    /\ UNCHANGED <<ncalls, prev, callLog, workerVars, bcEntered, bcData, otherVars>>

\* sendObjectIdentifier(identifier, rank), up to its first MPI_Send: len is
\* the length of the identifier and of its terminating NUL.
sendObjectIdentifier(identifier, rank) ==
    /\ Called
    /\ frame' = [NoFrame EXCEPT !.fn = "sendObjectIdentifier",
                                !.tag = OBJECTIDENTIFIER, !.buf = "ID",
                                !.len = SizeT(0, Len(identifier)), !.rank = rank,
                                !.message = Len(identifier) + 1,
                                !.sizeTag = OBJECTIDENTIFIERSIZE,
                                !.dataTag = OBJECTIDENTIFIER]
    /\ pc' = "soi_size"
    /\ UNCHANGED <<workerVars, chan, bcEntered, bcData, otherVars>>

\* MPI_Send(&len, 1, MPI_INT, rank, OBJECTIDENTIFIERSIZE, MPI_COMM_WORLD);
SoiSendSize ==
    /\ pc = "soi_size"
    /\ MPI_Send(frame.rank, IntMsg(OBJECTIDENTIFIERSIZE, frame.message), frame, "soi_data")

\* MPI_Send(message, len, MPI_CHAR, rank, OBJECTIDENTIFIER, MPI_COMM_WORLD);
\* and the return of sendObjectIdentifier.
SoiSendData ==
    /\ pc = "soi_data"
    /\ MPI_Send(frame.rank, ByteMsg(OBJECTIDENTIFIER, "MPI_CHAR", frame.buf, frame.message),
                frame, "idle")

\* ------------------------------------------------------------------------
\* The workers: each listens for a length from the coordinator, receives
\* the payload it announces and answers.
\* ------------------------------------------------------------------------
Running == pc \notin {"off", "aborted", "crashed"}

GotLen(tag, v) == [kind |-> "len", tag |-> tag, ival |-> v, buf |-> "-", count |-> 1]
GotBytes(tag, buf, count) ==
    [kind |-> "bytes", tag |-> tag, ival |-> 0, buf |-> buf, count |-> count]

\* MPI_Recv(&len, 1, MPI_INT, COORDINATOR, sizeTag, ...); after a BROADCAST
\* length the worker enters MPI_Bcast(buffer, len, MPI_UNSIGNED_CHAR,
\* COORDINATOR, MPI_COMM_WORLD).
WorkerRecvSize(w, sizeTag) ==
    /\ Running /\ wpc[w] = "listen"
    /\ HasTag(chan[COORDINATOR][w], sizeTag)
    /\ LET q == chan[COORDINATOR][w]
           i == FirstWithTag(q, sizeTag)
       IN  /\ chan' = [chan EXCEPT ![COORDINATOR][w] = Without(q, i)]
           /\ wlen' = [wlen EXCEPT ![w] = q[i].ival]
           /\ recvd' = [recvd EXCEPT ![w] = Append(@, GotLen(sizeTag, q[i].ival))]
    /\ wpc' = [wpc EXCEPT ![w] = IF sizeTag = DATASIZE THEN "recv_data"
                                 ELSE IF sizeTag = MLIRSIZE THEN "recv_mlir"
                                 ELSE "in_bcast"]
    /\ bcEntered' = IF sizeTag = BROADCAST THEN [bcEntered EXCEPT ![w] = @ + 1]
                    ELSE bcEntered
    /\ UNCHANGED <<coordVars, bcData, otherVars>>

\* What the worker answers: the acknowledgment a of the data it stored, or
\* the results of the task it ran.
Answer(tag, code, a) ==
    IF tag = MLIR
    THEN ByteMsg(OUTPUT, "MPI_UNSIGNED_CHAR", ResultOf(code).buf, ResultOf(code).count)
    ELSE ByteMsg(DATAACK, "MPI_CHAR", a, Len(AckBytes(a)))

\* The receive of the payload of the announced length, from rank 0, and the
\* worker's answer to it, with the acknowledgment a.
WorkerRecvPayload(w, a) ==
    /\ Running /\ wpc[w] \in {"recv_data", "recv_mlir"}
    /\ LET tag == IF wpc[w] = "recv_data" THEN DATA ELSE MLIR
           q == chan[COORDINATOR][w]
       IN  /\ HasTag(q, tag)
           /\ LET i == FirstWithTag(q, tag) IN
              /\ chan' = [chan EXCEPT ![COORDINATOR][w] = Without(q, i),
                                      ![w][COORDINATOR] = Append(@, Answer(tag, q[i].buf, a))]
              /\ recvd' = [recvd EXCEPT ![w] = Append(@, GotBytes(tag, q[i].buf, q[i].count))]
    /\ wpc' = [wpc EXCEPT ![w] = "listen"]
    /\ wlen' = [wlen EXCEPT ![w] = 0]
    /\ UNCHANGED <<coordVars, bcEntered, bcData, otherVars>>

\* MPI_Bcast returns on the worker with the root's payload, and the worker
\* acknowledges it with a.
WorkerLeaveBcast(w, a) ==
    /\ Running /\ wpc[w] = "in_bcast"
    /\ AllEntered(w)
    /\ recvd' = [recvd EXCEPT ![w] =
                    Append(@, GotBytes(BROADCAST, bcData[bcEntered[w]].buf, wlen[w]))]
    /\ chan' = [chan EXCEPT ![w][COORDINATOR] = Append(@, Answer(BROADCAST, "-", a))]
    /\ wpc' = [wpc EXCEPT ![w] = "listen"]
    /\ wlen' = [wlen EXCEPT ![w] = 0]
    /\ UNCHANGED <<coordVars, bcEntered, bcData, otherVars>>

Next ==
    \/ \E p \in Payloads, rank \in Ranks : distributeData(p, rank)
    \/ \E p \in Payloads, rank \in Ranks : distributeTask(p, rank)
    \/ \E tag \in TypesOfMessages \ {DATA, MLIR}, rank \in Ranks :
          distributeWithTag("distributeWithTag", tag, SmallPayload, rank)
    \/ DwtSendSize
    \/ DwtSendData
    \/ \E p \in Payloads : sendData(p)
    \/ SdSend
    \/ SdBcast
    \/ SdReturn
    \/ \E rank \in Workers : sendObjectIdentifier(Ident(1), rank)
    \/ SoiSendSize
    \/ SoiSendData
    \/ SendReturns
    \/ \E rank \in Workers : getResults(rank)
    \/ getDataAcknowledgement
    \/ GmfRecv
    \/ \E source \in Ranks : GmRecv(source)
    \/ \E w \in Workers, t \in {BROADCAST, DATASIZE, MLIRSIZE} : WorkerRecvSize(w, t)
    \/ \E w \in Workers, a \in Acks : WorkerRecvPayload(w, a)
    \/ \E w \in Workers, a \in Acks : WorkerLeaveBcast(w, a)

Spec == Init /\ [][Next]_vars

\* SpecBcast: the runs in which the coordinator broadcasts with sendData and
\* collects the acknowledgments, and every process runs: a worker whose
\* receive has a matching message, or whose collective is complete, goes on,
\* and so does the coordinator where MPI lets it.
NextBcast ==
    \/ \E p \in Payloads : sendData(p)
    \/ SdSend
    \/ SdBcast
    \/ SdReturn
    \/ SendReturns
    \/ getDataAcknowledgement
    \/ \E source \in Ranks : GmRecv(source)
    \/ \E w \in Workers : WorkerRecvSize(w, BROADCAST)
    \/ \E w \in Workers, a \in Acks : WorkerLeaveBcast(w, a)

\* SpecDist: the runs in which the coordinator distributes data and tasks
\* point to point, and the workers receive them and answer.
NextDist ==
    \/ \E p \in Payloads, rank \in Ranks : distributeData(p, rank)
    \/ \E p \in Payloads, rank \in Ranks : distributeTask(p, rank)
    \/ \E tag \in TypesOfMessages \ {DATA, MLIR}, rank \in Ranks :
          distributeWithTag("distributeWithTag", tag, SmallPayload, rank)
    \/ DwtSendSize
    \/ DwtSendData
    \/ SendReturns
    \/ \E w \in Workers, t \in {DATASIZE, MLIRSIZE} : WorkerRecvSize(w, t)
    \/ \E w \in Workers : WorkerRecvPayload(w, "ACK")

SpecDist == Init /\ [][NextDist]_vars

\* SpecAck: the runs in which the coordinator broadcasts a payload that MPI
\* accepts and collects the acknowledgments of the workers, none of which
\* is empty.
NextAck ==
    \/ sendData(SmallPayload)
    \/ SdSend
    \/ SdBcast
    \/ SdReturn
    \/ SendReturns
    \/ getDataAcknowledgement
    \/ \E source \in Ranks : GmRecv(source)
    \/ \E w \in Workers : WorkerRecvSize(w, BROADCAST)
    \/ \E w \in Workers, a \in Acks \ {"ACK0"} : WorkerLeaveBcast(w, a)

SpecAck == Init /\ [][NextAck]_vars

Fairness ==
    /\ \A w \in Workers : WF_vars(WorkerRecvSize(w, BROADCAST))
    /\ \A w \in Workers : WF_vars(\E a \in Acks : WorkerLeaveBcast(w, a))
    /\ WF_vars(SdSend) /\ WF_vars(SdBcast) /\ WF_vars(SdReturn) /\ WF_vars(SendReturns)

SpecBcast == Init /\ [][NextBcast]_vars /\ Fairness

\* ------------------------------------------------------------------------
\* Claims about the Task codec (SpecCodec)
\* ------------------------------------------------------------------------
\* The bytes of the wire layout of a task: header, code, and per input the
\* identifier's length field, the identifier, numRows and numCols.
RECURSIVE WireSizeOfInputs(_)
WireSizeOfInputs(inputs) ==
    IF inputs = <<>> THEN 0
    ELSE SizeofSizeT + Len(Head(inputs).identifier) + SizeofSizeT + SizeofSizeT
         + WireSizeOfInputs(Tail(inputs))

WireSize(t) == SizeofHeader + Len(t.mlir_code) + WireSizeOfInputs(t.inputs)

\* C1: a Task with a non-empty code string that is serialized and then
\* deserialized comes back equal field for field: mlir_code, and the inputs
\* in the same order with the same identifier, numRows and numCols.
C1_RoundTrip ==
    (cpc = "deserialized" /\ task.mlir_code # <<>>)
        => /\ out.status = "ok"
           /\ out.mlir_code = task.mlir_code
           /\ out.inputs = task.inputs

\* C2: sizeInBytes() is the size of the wire layout, which is the number of
\* bytes serialize writes, and the buffer reserved with it is never too small.
C2_SizeInBytesExact ==
    cpc \in {"serialized", "crashed"}
        => /\ sizeInBytes(task) = WireSize(task)
           /\ written = sizeInBytes(task)
           /\ written <= buffer.cap

\* The explicit failures of deserialize: the exceptions it can throw.
Exceptions == {"length_error", "bad_alloc"}

\* C8: deserialize of a buffer shorter than its header declares fails
\* explicitly, with an exception (it neither returns a Task nor kills the
\* process), and has read no byte at or past the buffer's end.
C8_ShortBufferRejected ==
    cpc = "deserialized_short"
        => /\ out.status \in Exceptions
           /\ out.readEnd <= inLen

\* ------------------------------------------------------------------------
\* Claims about constructStoredInfo (SpecParse)
\* ------------------------------------------------------------------------
CommaPositions(t) == {i \in 1..Len(t) : t[i] = ","}
\* The number of comma-delimited fields of a text.
NumFields(t) == Cardinality(CommaPositions(t)) + 1
\* A non-negative decimal integer: digits, and at least one.
IsNatText(f) == f # <<>> /\ \A i \in 1..Len(f) : f[i] \in Digits
\* The second and the third field of a text of exactly three fields.
SecondField(t) ==
    LET c1 == CHOOSE i \in CommaPositions(t) : \A j \in CommaPositions(t) : i <= j
        c2 == CHOOSE i \in CommaPositions(t) : \A j \in CommaPositions(t) : j <= i
    IN  SubSeq(t, c1 + 1, c2 - 1)
ThirdField(t) ==
    LET c2 == CHOOSE i \in CommaPositions(t) : \A j \in CommaPositions(t) : j <= i
    IN  SubSeq(t, c2 + 1, Len(t))

\* C9: a text of fewer than 3 comma-delimited fields makes
\* constructStoredInfo fail with an error; no descriptor is returned.
C9_TooFewFieldsFails ==
    (ppc = "done" /\ NumFields(text) < 3)
        => /\ pres.status = "out_of_range"
           /\ pres.info = NoInfo.info

\* "m1,10" has been given to constructStoredInfo, which threw.
C9_Witness ==
    /\ ppc = "done"
    /\ text = <<"m", "1", ",", "1", "0">>
    /\ pres.status = "out_of_range"

\* C10: a text of 3 fields whose second or third field is no non-negative
\* integer makes constructStoredInfo fail; no descriptor is returned.
C10_NonNumericFails ==
    (/\ ppc = "done"
     /\ NumFields(text) = 3
     /\ (~IsNatText(SecondField(text)) \/ ~IsNatText(ThirdField(text))))
        => pres.status # "ok"

\* The first field of a text of exactly three fields.
FirstField(t) ==
    LET c1 == CHOOSE i \in CommaPositions(t) : \A j \in CommaPositions(t) : i <= j
    IN  SubSeq(t, 1, c1 - 1)
\* The number a text of digits denotes.
RECURSIVE DecimalValue(_)
DecimalValue(f) ==
    IF f = <<>> THEN 0
    ELSE DecimalValue(SubSeq(f, 1, Len(f) - 1)) * 10 + DigitVal(f[Len(f)])

\* C11: for a text identifier,numRows,numCols with a comma-free identifier
\* and two non-negative decimal integers, constructStoredInfo returns the
\* descriptor with exactly that identifier, numRows and numCols.
C11_ParsesWellFormedText ==
    (/\ ppc = "done"
     /\ NumFields(text) = 3
     /\ IsNatText(SecondField(text)) /\ IsNatText(ThirdField(text)))
        => /\ pres.status = "ok"
           /\ pres.info.identifier = FirstField(text)
           /\ pres.info.numRows = DecimalValue(SecondField(text))
           /\ pres.info.numCols = DecimalValue(ThirdField(text))

\* "m,10,1" has been parsed.
C11_Witness ==
    /\ ppc = "done"
    /\ text = <<"m", ",", "1", "0", ",", "1">>
    /\ pres.status = "ok"
    /\ pres.info = [identifier |-> <<"m">>, numRows |-> 10, numCols |-> 1]

\* ------------------------------------------------------------------------
\* Claims about the message protocol (Spec)
\* ------------------------------------------------------------------------
Returned == pc \in {"idle", "aborted"}
DistributeFns == {"distributeData", "distributeTask", "distributeWithTag"}
\* The size_t n is the integer v.
IsValue(n, v) == n.hi = 0 /\ n.lo = v

\* C3: a transfer of category DATA or MLIR that distributeWithTag made to a
\* rank other than the coordinator is exactly two messages to that rank: the
\* length under the category's size tag, then the payload under its data
\* tag, of as many bytes as the length announced.
C3_LengthThenPayload ==
    (/\ Returned
     /\ frame.fn \in DistributeFns /\ frame.tag \in {DATA, MLIR}
     /\ frame.rank # COORDINATOR)
        => /\ Len(callLog) = 2
           /\ callLog[1].ok /\ callLog[2].ok
           /\ callLog[1].op = "send" /\ callLog[1].dst = frame.rank
           /\ callLog[1].msg.type = "MPI_INT" /\ callLog[1].msg.count = 1
           /\ callLog[1].msg.tag = (IF frame.tag = DATA THEN DATASIZE ELSE MLIRSIZE)
           /\ callLog[2].op = "send" /\ callLog[2].dst = frame.rank
           /\ callLog[2].msg.tag = frame.tag
           /\ callLog[2].msg.buf = frame.buf
           /\ callLog[1].msg.ival = callLog[2].msg.count

\* What a worker must have received, as its k-th item, of calls that are all
\* distributeData to it: the length of a payload, then the payload.
ExpectedItem(w, k) ==
    LET c == IF k <= 2 THEN prev ELSE LastCall IN
    IF k % 2 = 1
    THEN /\ recvd[w][k].kind = "len" /\ recvd[w][k].tag = DATASIZE
         /\ IsValue(c.len, recvd[w][k].ival)
    ELSE /\ recvd[w][k].kind = "bytes" /\ recvd[w][k].tag = DATA
         /\ recvd[w][k].buf = c.buf
         /\ IsValue(c.len, recvd[w][k].count)

\* C4: after two consecutive distributeData calls, with P1 then with P2, to
\* one worker, that worker receives len(P1), P1, len(P2), P2 in this order: what
\* it has received is always a prefix of these four, and all four once the
\* coordinator is done and nothing is left for the worker to receive.
C4_TagChannelOrder ==
    \A w \in Workers :
        (/\ ncalls = 2
         /\ prev.fn = "distributeData" /\ prev.rank = w
         /\ frame.fn = "distributeData" /\ frame.rank = w)
            => /\ Len(recvd[w]) <= 4
               /\ \A k \in 1..Len(recvd[w]) : ExpectedItem(w, k)
               /\ (/\ Returned
                   /\ chan[COORDINATOR][w] = <<>>
                   /\ wpc[w] = "listen")
                      => Len(recvd[w]) = 4

SendsTo(r) == {k \in 1..Len(callLog) : callLog[k].op = "send" /\ callLog[k].dst = r}
Bcasts == {k \in 1..Len(callLog) : callLog[k].op = "bcast"}

\* C5: sendData sends the payload length, messageLength, exactly once to
\* every rank 1..worldSize-1 under the BROADCAST tag and never to rank 0, and
\* issues MPI_Bcast of the payload only after all these messages.
C5_LengthToEveryWorkerThenBcast ==
    (frame.fn = "sendData" /\ (Bcasts # {} \/ Returned))
        => /\ SendsTo(COORDINATOR) = {}
           /\ \A r \in Workers : Cardinality(SendsTo(r)) = 1
           /\ \A r \in Workers : \A k \in SendsTo(r) :
                 /\ callLog[k].ok
                 /\ callLog[k].msg.tag = BROADCAST
                 /\ callLog[k].msg.type = "MPI_INT" /\ callLog[k].msg.count = 1
                 /\ IsValue(frame.len, callLog[k].msg.ival)
           /\ Cardinality(Bcasts) = 1
           /\ \A b \in Bcasts :
                 /\ b = Len(callLog)
                 /\ callLog[b].ok
                 /\ callLog[b].msg.buf = frame.buf
                 /\ IsValue(frame.len, callLog[b].msg.count)

\* C6: a distribute call whose destination is the coordinator returns at
\* once: it issues no send (no length, no payload) and leaves the messages
\* in flight and the collective as they were.
C6_CoordinatorRankIsNoOp ==
    [][(frame'.fn \in DistributeFns /\ frame'.rank = COORDINATOR)
          => /\ callLog' = <<>>
             /\ pc' = "idle"
             /\ (ncalls' # ncalls
                    => chan' = chan /\ bcEntered' = bcEntered /\ bcData' = bcData)]_vars

\* distributeData to rank 0 has returned while a message of an earlier call
\* is still in flight.
C6_Witness ==
    /\ pc = "idle"
    /\ frame.fn = "distributeData" /\ frame.rank = COORDINATOR
    /\ ncalls = 2
    /\ \E w \in Workers : chan[COORDINATOR][w] # <<>>

\* C7: when getMessage or getMessageFrom returns, the vector holds exactly
\* the n bytes of the message received: its length is n, *len is n, and the
\* bytes are the payload sent.
C7_BufferIsPayload ==
    (pc = "idle" /\ frame.fn \in {"getResults", "getDataAcknowledgement"})
        => /\ rlen = rmsg.count
           /\ rbuf.buf = rmsg.buf /\ rbuf.count = rmsg.count
           /\ rbuf.size = rmsg.count

\* The number of collectives a rank has left.
BcastsLeft(r) ==
    IF r = COORDINATOR
    THEN (IF pc = "sd_bcast" THEN bcEntered[r] - 1 ELSE bcEntered[r])
    ELSE (IF wpc[r] = "in_bcast" THEN bcEntered[r] - 1 ELSE bcEntered[r])

\* No rank has left a collective that some rank has not entered.
NoEarlyCompletion == \A r \in Ranks : \A q \in Ranks : BcastsLeft(r) <= bcEntered[q]

\* C15: the collective of sendData completes on no participant before all
\* have entered it (so sendData does not return while a worker has not
\* entered), and when every process runs, every sendData call returns and
\* every worker that has entered the collective leaves it.
C15_BlockingBroadcast ==
    /\ []NoEarlyCompletion
    /\ (frame.fn = "sendData" /\ pc # "idle") ~> (pc = "idle")
    /\ \A w \in Workers : (wpc[w] = "in_bcast") ~> (wpc[w] = "listen")

\* One getMessage has just returned: the step from its MPI_Probe on.
GetMessageReturns == pc = "gm_probe" /\ pc' # "gm_probe"

\* C18: one getMessage call consumes exactly one pending message, the one
\* its probe matched: the rank it reports sent the payload received, the
\* length reported is that payload's, and the messages of all other ranks,
\* and the later ones of that rank, stay pending in their order.
C18_AnySourceReceivesProbed ==
    [][GetMessageReturns
          => \E r \in Ranks :
                /\ HasTag(chan[r][COORDINATOR], frame.tag)
                /\ LET q == chan[r][COORDINATOR]
                       i == FirstWithTag(q, frame.tag)
                   IN  /\ rrank' = r
                       /\ rmsg' = q[i]
                       /\ rbuf'.buf = q[i].buf /\ rbuf'.count = q[i].count
                       /\ rlen' = q[i].count
                       /\ chan'[r][COORDINATOR] = Without(q, i)
                       /\ \A s \in Ranks, d \in Ranks :
                             (s # r \/ d # COORDINATOR) => chan'[s][d] = chan[s][d]]_vars

\* getDataAcknowledgement has returned the acknowledgment of rank 2 while
\* that of rank 1 is still pending.
C18_Witness ==
    /\ pc = "idle" /\ frame.fn = "getDataAcknowledgement"
    /\ rrank = 2 /\ rmsg.tag = DATAACK /\ ack.status = "ok"
    /\ HasTag(chan[1][COORDINATOR], DATAACK)

\* The tags of the logical exchanges: broadcast, data, code, object identifier.
ExchangeTags ==
    <<{BROADCAST}, {DATASIZE, DATA}, {MLIRSIZE, MLIR},
      {OBJECTIDENTIFIERSIZE, OBJECTIDENTIFIER}>>

\* C19: every MPI_Send of sendData, sendObjectIdentifier and
\* distributeWithTag is given one of the 12 TypesOfMessages tags, whatever
\* the category; the size tag and the payload tag of a transfer differ, and
\* no two logical exchanges share a tag.
C19_TagsInEnumeration ==
    /\ \A k \in 1..Len(callLog) :
          callLog[k].op = "send" => callLog[k].msg.tag \in TypesOfMessages
    /\ (frame.fn \in DistributeFns \cup {"sendObjectIdentifier"}
           /\ ~(frame.fn \in DistributeFns /\ DistributeSkips(frame.rank)))
          => /\ frame.sizeTag \in TypesOfMessages
             /\ frame.dataTag \in TypesOfMessages
             /\ frame.sizeTag # frame.dataTag
    /\ \A i \in 1..Len(ExchangeTags), j \in 1..Len(ExchangeTags) :
          i # j => ExchangeTags[i] \cap ExchangeTags[j] = {}

\* C20: for every messageLength given to sendData or distributeWithTag, the
\* length announced in the size message is not negative, equals
\* messageLength and equals the number of payload bytes sent: the narrowing
\* to int changes nothing.
C20_LengthAnnouncedExactly ==
    (frame.fn \in DistributeFns \cup {"sendData"})
        => /\ \A k \in 1..Len(callLog) :
                 callLog[k].msg.type = "MPI_INT"
                    => /\ callLog[k].msg.ival >= 0
                       /\ IsValue(frame.len, callLog[k].msg.ival)
           /\ \A k \in 1..Len(callLog) :
                 callLog[k].msg.type = "MPI_UNSIGNED_CHAR"
                    => IsValue(frame.len, callLog[k].msg.count)
           /\ (frame.fn = "sendData" \/ ~DistributeSkips(frame.rank))
                 => IsValue(frame.len, frame.message)

\* ------------------------------------------------------------------------
\* Claims about aggAll (SpecAgg)
\* ------------------------------------------------------------------------
NumCells == matrix.numRows * matrix.numCols
\* The values of a sequence, and their sum.
Range(seq) == {seq[i] : i \in 1..Len(seq)}
RECURSIVE SumOf(_)
SumOf(seq) == IF seq = <<>> THEN 0 ELSE SumOf(SubSeq(seq, 1, Len(seq) - 1)) + seq[Len(seq)]
Least(S) == CHOOSE x \in S : \A y \in S : x <= y
Greatest(S) == CHOOSE x \in S : \A y \in S : y <= x
\* The values of the logical cells, in row-major order.
CellValues == [k \in 1..Len(matrix.cells) |-> matrix.cells[k].v]

\* The stored values together with a zero when some cell is not stored.
WithImplicitZero ==
    Range(csr.values) \cup (IF csr.numNonZeros < NumCells THEN {0} ELSE {})

\* C12: for a CSR matrix of at least one cell and SUM, MIN or MAX, aggAll
\* returns the reduction of the stored values and of the implicit zeros: the
\* sum of the stored values, or the minimum / maximum of the stored values
\* and, exactly when some cell is not stored, of zero.
C12_SparseCountsImplicitZeros ==
    (csrRes # NoResult /\ NumCells >= 1 /\ opCode \in {"SUM", "MIN", "MAX"})
        => /\ csrRes = Value(IF opCode = "SUM" THEN SumOf(csr.values)
                             ELSE IF opCode = "MIN" THEN Least(WithImplicitZero)
                             ELSE Greatest(WithImplicitZero))
           /\ csr.numNonZeros = 0
                 => csrRes = Value(EwBinarySca(getBinaryOpCode(opCode), getNeutral(opCode), 0))

\* MIN of the stored values 3, 3 with a third cell not stored is 0.
C12_Witness ==
    /\ opCode = "MIN" /\ csr.values = <<3, 3>> /\ NumCells = 3 /\ csrRes = Value(0)

\* C13: for STDDEV aggAll throws and yields no value, for every dense and
\* every CSR matrix.
C13_StddevThrows ==
    opCode = "STDDEV"
        => /\ denseRes \in {NoResult, Thrown}
           /\ csrRes \in {NoResult, Thrown}

\* STDDEV has thrown for both representations of a matrix with cells, and of
\* one without.
C13_Witness ==
    /\ opCode = "STDDEV" /\ denseRes = Thrown /\ csrRes = Thrown
    /\ NumCells \in {0, MaxCells}

\* The quotient sum / n in the value type: exact for a floating-point type,
\* truncated towards zero for an integral one.
MeanOf(vt, sum, n) ==
    LET r == IF vt = "double" THEN Ratio(sum, n)
             ELSE IF sum >= 0 THEN Value(sum \div n) ELSE Value(0 - ((0 - sum) \div n))
    IN  {[status |-> r.status, kind |-> r.kind, num |-> r.num, den |-> r.den,
          digits |-> r.digits]}

\* C14: for MEAN and a matrix of at least one cell, aggAll returns the sum of
\* all logical cells divided by numRows * numCols, for the dense and for the
\* CSR matrix.
C14_MeanIsSumOverCells ==
    (opCode = "MEAN" /\ NumCells >= 1)
        => /\ denseRes \in {NoResult} \cup MeanOf(valueType, SumOf(CellValues), NumCells)
           /\ csrRes \in {NoResult} \cup MeanOf(valueType, SumOf(CellValues), NumCells)

\* The left fold of func over a sequence, from agg.
RECURSIVE FoldLeft(_, _, _)
FoldLeft(func, agg, seq) ==
    IF seq = <<>> THEN agg
    ELSE FoldLeft(func, EwBinarySca(func, agg, Head(seq)), Tail(seq))

\* C16: for a dense matrix and a pure binary reduction, aggAll returns the
\* left fold of the op-code's function, from its neutral element, over the
\* logical cells in row-major order, whatever the padding holds; without
\* cells that is the neutral element.
C16_DenseFoldsLogicalCells ==
    (denseRes # NoResult /\ isPureBinaryReduction(opCode))
        => /\ denseRes = Value(FoldLeft(getBinaryOpCode(opCode), getNeutral(opCode), CellValues))
           /\ NumCells = 0 => denseRes = Value(getNeutral(opCode))

\* SUM over two padded rows: the padding holds 9 and is not in the result.
C16_Witness ==
    /\ opCode = "SUM" /\ dense.numRows = 2 /\ dense.numCols = 2 /\ dense.rowSkip = 3
    /\ dense.values = <<3, 3, 9, 3, 0 - 2, 9>>
    /\ denseRes = Value(7)

\* C17: for SUM, MIN and MAX, aggAll on the dense and on the CSR matrix of
\* one logical matrix, of any shape, return the same value.
C17_DenseAndCSRAgree ==
    (opCode \in {"SUM", "MIN", "MAX"} /\ denseRes # NoResult /\ csrRes # NoResult)
        => denseRes = csrRes

====
